---- MODULE Spec2Model ----
(***************************************************************************)
(* Model of the lighting state engine of tether-artnet-controller:         *)
(* Model::update (drain the message queue, resolve, animate), the message  *)
(* handlers and Model::apply_scene of src/src/model.rs.                    *)
(***************************************************************************)
EXTENDS Integers, Sequences, FiniteSets, TLC

VARIABLES
    fixtures,                    \* project.fixtures: label, offset, macros, mappings
    scenes,                      \* project.scenes: label, state, last_active
    channels_state,              \* the universe buffer, indexed 0..511
    apply_macros,                \* Model.apply_macros
    selected_macro_group_index,  \* Model.selected_macro_group_index
    tether_rx,                   \* the inbound mpsc queue
    pc,                          \* position of the owner thread in update()
    work_done,                   \* the local of update()
    sent_count,                  \* messages produced so far (bounded)
    go_count,                    \* GO clicks in the scene view so far (bounded)
    settings,                    \* Model.settings: the command line switches
    drain_start,                 \* history: the queue when update() was entered
    applied,                     \* history: messages handled in this update()
    last                         \* history: the last operation and the state before it

vars == <<fixtures, scenes, channels_state, apply_macros,
          selected_macro_group_index, tether_rx, pc, work_done,
          sent_count, go_count, settings, drain_start, applied, last>>

----------------------------------------------------------------------------
(* Bounds of the model *)

\* messages the producers send in one behaviour
MaxMsgs == 2
\* clicks on a GO button of the scene view in one behaviour
MaxGo == 1
\* largest time step between two calls of get_value_and_done
MaxDt == 2
\* the non-zero animation duration used by messages
LongMs == 3
\* scenes the scene view holds at most
MaxScenes == 2

(* Program constants *)

CHANNELS_PER_UNIVERSE == 512
START_NOTE == 48
\* one unit of the fixed-point grid on which eased progress is represented
EaseOne == 1000

\* settings.auto_random and settings.auto_zero: the command line test switches
AutoRandom == settings.auto_random
AutoZero == settings.auto_zero

\* the engine in its normal mode: both test switches off
NormalMode == [auto_random |-> FALSE, auto_zero |-> FALSE]

----------------------------------------------------------------------------
(* Option<T> *)

None == <<>>
Some(x) == <<x>>
IsSome(o) == o # <<>>
Unwrap(o) == o[1]

(* str::eq_ignore_ascii_case over the labels used by the model *)

Lower(s) ==
    CASE s = "A" -> "a"
      [] s = "B" -> "b"
      [] s = "Dim" -> "dim"
      [] s = "DIM" -> "dim"
      [] s = "Col" -> "col"
      [] s = "Bright" -> "bright"
      [] s = "Blackout" -> "blackout"
      [] s = "BLACKOUT" -> "blackout"
      [] s = "Mixed" -> "mixed"
      [] s = "Dup" -> "dup"
      [] s = "New Scene 0" -> "new scene 0"
      [] s = "New Scene 1" -> "new scene 1"
      [] s = "New Scene 2" -> "new scene 2"
      [] s = "New Scene 3" -> "new scene 3"
      [] OTHER -> s

EqIgnoreCase(a, b) == Lower(a) = Lower(b)

(* Values carried by messages and scenes *)

ControlValue(b) == [kind |-> "ControlValue", value |-> b]
ColourValue(c) == [kind |-> "ColourValue", rgb |-> c]

Red == <<255, 0, 0>>
Black == <<0, 0, 0>>

Range(s) == {s[i] : i \in DOMAIN s}


----------------------------------------------------------------------------
(* f32 values on a fixed-point grid: the float x is the integer            *)
(* x * 255 * EaseOne, so a byte b as f32 / 255.0 is b * EaseOne            *)

\* `b as f32 / 255.0`
ByteToF32(b) == b * EaseOne

\* `(value * 255.0) as u8`: the cast truncates toward zero and saturates
F32ToU8(v) ==
    LET t == v \div EaseOne
    IN IF v < 0 THEN 0 ELSE IF t > 255 THEN 255 ELSE t

(* Animation: a tween from start to end over duration, with SineInOut *)

NewAnimation(duration, start_value, end_value) ==
    [duration |-> duration, start |-> start_value, end |-> end_value, elapsed |-> 0]

\* (1 - cos(pi * p)) / 2 at p = 0, 1/6, ..., 1, in units of 1/EaseOne
SineInOutTable == <<0, 67, 250, 500, 750, 933, 1000>>

\* the eased progress after `elapsed` of `duration`; progress is cut to sixths
SineInOut(elapsed, duration) ==
    IF duration = 0 \/ elapsed >= duration
    THEN EaseOne
    ELSE SineInOutTable[((6 * elapsed) \div duration) + 1]

\* Animation::get_value_and_done, called dt after the previous call
GetValueAndDone(animation, dt) ==
    LET e == animation.elapsed + dt
        eased == SineInOut(e, animation.duration)
        delta == animation.end - animation.start
    IN [animation |-> [animation EXCEPT !.elapsed = e],
        value |-> IF e >= animation.duration
                  THEN animation.end
                  ELSE animation.start + (eased * delta) \div EaseOne,
        done |-> e >= animation.duration]


----------------------------------------------------------------------------
(* The project: fixtures and scenes as loaded *)

ControlMacro(label, current_value, channels) ==
    [kind |-> "Control", label |-> label, current_value |-> current_value,
     animation |-> None, channels |-> channels]

ColourMacro(label, current_value, channels) ==
    [kind |-> "Colour", label |-> label, current_value |-> current_value,
     channels |-> channels]

ChannelMapping(channel, default, home) ==
    [channel |-> channel, default |-> default, home |-> home]

InitFixtures ==
    << [label |-> "A", offset_channels |-> 0,
        macros |-> << ControlMacro("Dim", 0, <<1>>),
                      ColourMacro("Col", Black, <<2, 3, 4>>) >>,
        mappings |-> << ChannelMapping(1, Some(10), Some(255)),
                        ChannelMapping(2, None, None),
                        ChannelMapping(3, None, None),
                        ChannelMapping(4, None, None),
                        ChannelMapping(5, Some(20), None) >>],
       [label |-> "b", offset_channels |-> 5,
        macros |-> << ControlMacro("Dim", 0, <<1>>) >>,
        mappings |-> << ChannelMapping(1, None, Some(64)) >>] >>

InitScenes ==
    << [label |-> "Bright",
        state |-> ("A" :> ("Dim" :> ControlValue(255) @@ "Col" :> ColourValue(Red)))
                  @@ ("B" :> ("Dim" :> ControlValue(128))),
        last_active |-> None],
       [label |-> "Blackout",
        state |-> ("A" :> ("Dim" :> ControlValue(0))),
        last_active |-> None],
       [label |-> "Mixed",
        state |-> ("A" :> ("Dim" :> ColourValue(Red) @@ "Col" :> ControlValue(7)))
                  @@ ("B" :> ("Dim" :> ControlValue(9))),
        last_active |-> None] >>

\* a scene file in which two keys of the state map name fixture "A", ignoring
\* case, with different targets for its macro "Dim"
DupScenes ==
    << [label |-> "Dup",
        state |-> ("A" :> ("Dim" :> ControlValue(10)))
                  @@ ("a" :> ("Dim" :> ControlValue(20)))
                  @@ ("b" :> ("Dim" :> ControlValue(30))),
        last_active |-> None] >>

\* a project in which two fixtures overlap: channel 2 of "A" and channel 1 of
\* "b" are both the absolute channel index 1
AliasFixtures ==
    << [label |-> "A", offset_channels |-> 0,
        macros |-> << ControlMacro("Dim", 0, <<2>>) >>,
        mappings |-> << ChannelMapping(2, None, Some(10)) >>],
       [label |-> "b", offset_channels |-> 1,
        macros |-> << ControlMacro("Dim", 0, <<1>>) >>,
        mappings |-> << ChannelMapping(1, None, Some(64)) >>] >>

\* SystemTime::now(): the timestamp is not read by the engine
Now == "now"

----------------------------------------------------------------------------
(* Model::apply_home_values *)

RECURSIVE HomeMappings(_, _, _, _)
HomeMappings(buffer, fixture, mappings, i) ==
    IF i > Len(mappings) THEN buffer
    ELSE LET m == mappings[i]
             channel_index == m.channel + fixture.offset_channels - 1
             next == IF IsSome(m.home)
                     THEN [buffer EXCEPT ![channel_index] = Unwrap(m.home)]
                     ELSE buffer
         IN HomeMappings(next, fixture, mappings, i + 1)

\* faulty variant: the fixtures are visited from the last to the first
RECURSIVE HomeFixturesReversed(_, _, _)
HomeFixturesReversed(buffer, fx, i) ==
    IF i > Len(fx) THEN buffer
    ELSE HomeFixturesReversed(
            HomeMappings(buffer, fx[Len(fx) + 1 - i], fx[Len(fx) + 1 - i].mappings, 1),
            fx, i + 1)

RECURSIVE HomeFixtures(_, _, _)
HomeFixtures(buffer, fx, i) ==
    IF i > Len(fx) THEN buffer
    ELSE HomeFixtures(HomeMappings(buffer, fx[i], fx[i].mappings, 1), fx, i + 1)

ApplyHomeValues(fx) ==
    HomeFixtures([c \in 0 .. CHANNELS_PER_UNIVERSE - 1 |-> 0], fx, 1)

(* ArtNetInterface::update: the channel resolver. Every macro of every     *)
(* fixture, in stored order, writes its value to the channels it covers.   *)

MacroByte(m, pos) ==
    IF m.kind = "Control" THEN m.current_value ELSE m.current_value[pos]

RECURSIVE ResolveChannels(_, _, _, _)
ResolveChannels(buffer, fixture, m, pos) ==
    IF pos > Len(m.channels) THEN buffer
    ELSE ResolveChannels(
            [buffer EXCEPT ![m.channels[pos] + fixture.offset_channels - 1]
                              = MacroByte(m, pos)],
            fixture, m, pos + 1)

RECURSIVE ResolveMacros(_, _, _)
ResolveMacros(buffer, fixture, i) ==
    IF i > Len(fixture.macros) THEN buffer
    ELSE ResolveMacros(ResolveChannels(buffer, fixture, fixture.macros[i], 1),
                       fixture, i + 1)

RECURSIVE ResolveFixtures(_, _, _)
ResolveFixtures(buffer, fx, i) ==
    IF i > Len(fx) THEN buffer
    ELSE ResolveFixtures(ResolveMacros(buffer, fx[i], 1), fx, i + 1)

\* the state ArtNetInterface::get_state returns after update()
ArtNetState(buffer, fx, flag) ==
    IF flag THEN ResolveFixtures(buffer, fx, 1) ELSE buffer


----------------------------------------------------------------------------
(* Model::animate_macros *)

\* faulty variant: done is checked before the value is applied
AnimateMacroDoneFirst(m, dt) ==
    IF m.kind = "Control"
    THEN IF IsSome(m.animation)
         THEN LET r == GetValueAndDone(Unwrap(m.animation), dt)
                  dmx_value == F32ToU8(r.value)
              IN IF r.done
                 THEN [m EXCEPT !.animation = None]
                 ELSE [m EXCEPT !.current_value = dmx_value,
                                !.animation = Some(r.animation)]
         ELSE m
    ELSE m

\* faulty variant: a finished animation is not deleted
AnimateMacroKeepsDone(m, dt) ==
    IF m.kind = "Control"
    THEN IF IsSome(m.animation)
         THEN LET r == GetValueAndDone(Unwrap(m.animation), dt)
                  dmx_value == F32ToU8(r.value)
              IN [m EXCEPT !.current_value = dmx_value,
                           !.animation = IF r.done THEN m.animation
                                         ELSE Some(r.animation)]
         ELSE m
    ELSE m

\* one macro of the loop body; dt is the time since the animation was last read
AnimateMacro(m, dt) ==
    IF m.kind = "Control"
    THEN IF IsSome(m.animation)
         THEN LET r == GetValueAndDone(Unwrap(m.animation), dt)
                  dmx_value == F32ToU8(r.value)
              IN [m EXCEPT !.current_value = dmx_value,
                           !.animation = IF r.done THEN None ELSE Some(r.animation)]
         ELSE m
    ELSE m

AnimateMacros(fx, dt) ==
    [i \in DOMAIN fx |->
        [fx[i] EXCEPT !.macros =
            [j \in DOMAIN fx[i].macros |-> AnimateMacro(fx[i].macros[j], dt)]]]

(* Model::handle_midi_message: the outcomes of one MIDI message. Raw,       *)
(* NoteOff and ControlChange reach todo!(), which panics. NoteOn computes   *)
(* note - 48 on u8: below 48 a build with overflow checks panics and a      *)
(* build without them wraps.                                                *)

HandleMidiMessage(m, index) ==
    IF m.kind = "NoteOn"
    THEN IF m.note >= START_NOTE
         THEN {[panic |-> FALSE, index |-> m.note - START_NOTE]}
         ELSE {[panic |-> TRUE, index |-> index],
               [panic |-> FALSE, index |-> (m.note - START_NOTE) % 256]}
    ELSE {[panic |-> TRUE, index |-> index]}

(* get_target_fixtures_list *)

\* faulty variant: the label is compared with == instead of eq_ignore_ascii_case
GetTargetFixturesListExact(fx, label_search_string) ==
    {i \in DOMAIN fx :
        IF IsSome(label_search_string)
        THEN fx[i].label = Unwrap(label_search_string)
        ELSE TRUE}

GetTargetFixturesList(fx, label_search_string) ==
    {i \in DOMAIN fx :
        IF IsSome(label_search_string)
        THEN EqIgnoreCase(fx[i].label, Unwrap(label_search_string))
        ELSE TRUE}

\* Iterator::find over the macros of a fixture: the first macro whose label
\* matches, 0 when there is none
FindMacro(macros, macro_label) ==
    LET hits == {j \in DOMAIN macros : EqIgnoreCase(macros[j].label, macro_label)}
    IN IF hits = {} THEN 0 ELSE CHOOSE j \in hits : \A k \in hits : j <= k

(* Model::handle_macro_message *)

\* faulty variant: a Control value sent to a Colour macro is used as a grey
MacroMessageCoerces(m, value) ==
    IF m.kind = "Control"
    THEN IF value.kind = "ControlValue"
         THEN [m EXCEPT !.current_value = value.value]
         ELSE m
    ELSE IF value.kind = "ColourValue"
         THEN [m EXCEPT !.current_value = value.rgb]
         ELSE [m EXCEPT !.current_value = <<value.value, value.value, value.value>>]

\* the match on the target macro and the message value
MacroMessageOnMacro(m, value) ==
    IF m.kind = "Control"
    THEN IF value.kind = "ControlValue"
         THEN [m EXCEPT !.current_value = value.value]
         ELSE m
    ELSE IF value.kind = "ColourValue"
         THEN [m EXCEPT !.current_value = value.rgb]
         ELSE m

HandleMacroMessage(fx, msg) ==
    LET target_fixtures == GetTargetFixturesList(fx, msg.fixture_label)
    IN [i \in DOMAIN fx |->
          IF i \in target_fixtures
          THEN LET j == FindMacro(fx[i].macros, msg.macro_label)
               IN IF j = 0 THEN fx[i]
                  ELSE [fx[i] EXCEPT !.macros[j] =
                            MacroMessageOnMacro(fx[i].macros[j], msg.value)]
          ELSE fx[i]]

(* Model::handle_animation_message *)

\* faulty variant: a running animation is not replaced
AnimationMessageKeepsRunning(m, target_value, duration) ==
    IF m.kind = "Control"
    THEN IF target_value.kind = "ControlValue" /\ m.animation = None
         THEN [m EXCEPT !.animation =
                  Some(NewAnimation(duration, ByteToF32(m.current_value),
                                    ByteToF32(target_value.value)))]
         ELSE m
    ELSE m

AnimationMessageOnMacro(m, target_value, duration) ==
    IF m.kind = "Control"
    THEN IF target_value.kind = "ControlValue"
         THEN LET start_value == ByteToF32(m.current_value)
                  end_value == ByteToF32(target_value.value)
              IN [m EXCEPT !.animation =
                      Some(NewAnimation(duration, start_value, end_value))]
         ELSE m
    ELSE m

HandleAnimationMessage(fx, msg) ==
    LET target_fixtures == GetTargetFixturesList(fx, msg.fixture_label)
    IN [i \in DOMAIN fx |->
          IF i \in target_fixtures
          THEN LET j == FindMacro(fx[i].macros, msg.macro_label)
               IN IF j = 0 THEN fx[i]
                  ELSE [fx[i] EXCEPT !.macros[j] =
                            AnimationMessageOnMacro(fx[i].macros[j],
                                                    msg.target_value, msg.duration)]
          ELSE fx[i]]

(* Model::apply_scene *)

\* faulty variant: the filter is not consulted
IsTargetFixtureNoFilter(fixture, fixture_label_in_scene, fixture_filters) ==
    EqIgnoreCase(fixture_label_in_scene, fixture.label)

IsTargetFixture(fixture, fixture_label_in_scene, fixture_filters) ==
    IF IsSome(fixture_filters)
    THEN /\ fixture_label_in_scene \in Range(Unwrap(fixture_filters))
         /\ EqIgnoreCase(fixture_label_in_scene, fixture.label)
    ELSE EqIgnoreCase(fixture_label_in_scene, fixture.label)

\* faulty variant: a macro the scene does not hold is reset
ApplySceneMacroResetsAbsent(m, fixture_state_in_scene, animation_ms) ==
    IF m.label \in DOMAIN fixture_state_in_scene
    THEN LET macro_in_scene == fixture_state_in_scene[m.label]
         IN IF m.kind = "Control"
            THEN IF macro_in_scene.kind = "ControlValue"
                 THEN IF IsSome(animation_ms)
                      THEN [m EXCEPT !.animation =
                               Some(NewAnimation(Unwrap(animation_ms),
                                                 ByteToF32(m.current_value),
                                                 ByteToF32(macro_in_scene.value)))]
                      ELSE [m EXCEPT !.current_value = macro_in_scene.value]
                 ELSE m
            ELSE IF macro_in_scene.kind = "ColourValue"
                 THEN [m EXCEPT !.current_value = macro_in_scene.rgb]
                 ELSE m
    ELSE IF m.kind = "Control"
         THEN [m EXCEPT !.current_value = 0]
         ELSE [m EXCEPT !.current_value = Black]

\* faulty variant: an immediate recall adds the scene value to the current
\* value (u8, wrapping) instead of assigning it
ApplySceneMacroAdds(m, fixture_state_in_scene, animation_ms) ==
    IF m.label \in DOMAIN fixture_state_in_scene
    THEN LET macro_in_scene == fixture_state_in_scene[m.label]
         IN IF m.kind = "Control"
            THEN IF macro_in_scene.kind = "ControlValue"
                 THEN IF IsSome(animation_ms)
                      THEN [m EXCEPT !.animation =
                               Some(NewAnimation(Unwrap(animation_ms),
                                                 ByteToF32(m.current_value),
                                                 ByteToF32(macro_in_scene.value)))]
                      ELSE [m EXCEPT !.current_value =
                               (m.current_value + macro_in_scene.value) % 256]
                 ELSE m
            ELSE IF macro_in_scene.kind = "ColourValue"
                 THEN [m EXCEPT !.current_value = macro_in_scene.rgb]
                 ELSE m
    ELSE m

\* the body of the loop over the macros of a target fixture
ApplySceneMacro(m, fixture_state_in_scene, animation_ms) ==
    IF m.label \in DOMAIN fixture_state_in_scene
    THEN LET macro_in_scene == fixture_state_in_scene[m.label]
         IN IF m.kind = "Control"
            THEN IF macro_in_scene.kind = "ControlValue"
                 THEN IF IsSome(animation_ms)
                      THEN [m EXCEPT !.animation =
                               Some(NewAnimation(Unwrap(animation_ms),
                                                 ByteToF32(m.current_value),
                                                 ByteToF32(macro_in_scene.value)))]
                      ELSE [m EXCEPT !.current_value = macro_in_scene.value]
                 ELSE m
            ELSE IF macro_in_scene.kind = "ColourValue"
                 THEN [m EXCEPT !.current_value = macro_in_scene.rgb]
                 ELSE m
    ELSE m

\* the loop over scene.state.iter() for one fixture; `order` is the order in
\* which the HashMap yields its keys
RECURSIVE ApplySceneFixture(_, _, _, _, _, _)
ApplySceneFixture(fixture, state, order, k, animation_ms, fixture_filters) ==
    IF k > Len(order) THEN fixture
    ELSE LET key == order[k]
             next == IF IsTargetFixture(fixture, key, fixture_filters)
                     THEN [fixture EXCEPT !.macros =
                              [j \in DOMAIN fixture.macros |->
                                  ApplySceneMacro(fixture.macros[j], state[key],
                                                  animation_ms)]]
                     ELSE fixture
         IN ApplySceneFixture(next, state, order, k + 1, animation_ms, fixture_filters)

\* scene_index counts from 0, as the Vec index does
SceneFound(scs, scene_index) == scene_index + 1 \in DOMAIN scs

ApplyScene(fx, scs, scene_index, animation_ms, fixture_filters, order) ==
    IF SceneFound(scs, scene_index)
    THEN [i \in DOMAIN fx |->
            ApplySceneFixture(fx[i], scs[scene_index + 1].state, order, 1,
                              animation_ms, fixture_filters)]
    ELSE fx

\* the orders in which a HashMap with these keys can be iterated
KeyOrders(state) ==
    {o \in [1 .. Cardinality(DOMAIN state) -> DOMAIN state] :
        \A a, b \in DOMAIN o : a # b => o[a] # o[b]}

(* Model::handle_scene_message: the index of the first scene whose label   *)
(* matches, counted from 0; -1 when there is none                          *)

\* faulty variant: the first scene is taken when no label matches
FindSceneOrFirst(scs, scene_label) ==
    LET hits == {i \in DOMAIN scs : EqIgnoreCase(scs[i].label, scene_label)}
    IN IF hits = {} THEN 0 ELSE (CHOOSE i \in hits : \A k \in hits : i <= k) - 1

FindScene(scs, scene_label) ==
    LET hits == {i \in DOMAIN scs : EqIgnoreCase(scs[i].label, scene_label)}
    IN IF hits = {} THEN -1 ELSE (CHOOSE i \in hits : \A k \in hits : i <= k) - 1


----------------------------------------------------------------------------
(* Remote control messages *)

MidiMsg(kind, note) ==
    [type |-> "Midi", midi |-> [kind |-> kind, note |-> note]]

MacroDirectMsg(fixture_label, macro_label, value) ==
    [type |-> "MacroDirect", fixture_label |-> fixture_label,
     macro_label |-> macro_label, value |-> value]

MacroAnimationMsg(fixture_label, macro_label, target_value, duration) ==
    [type |-> "MacroAnimation", fixture_label |-> fixture_label,
     macro_label |-> macro_label, target_value |-> target_value,
     duration |-> duration]

SceneMsg(scene_label, ms, fixture_filters) ==
    [type |-> "SceneAnimation", scene_label |-> scene_label, ms |-> ms,
     fixture_filters |-> fixture_filters]

MidiMessages ==
    {MidiMsg("Raw", 0), MidiMsg("NoteOn", 47), MidiMsg("NoteOn", 50),
     MidiMsg("NoteOff", 50), MidiMsg("ControlChange", 50)}

MacroDirectMessages ==
    {MacroDirectMsg(None, "dim", ControlValue(128))}

MacroAnimationMessages ==
    {MacroAnimationMsg(None, "dim", ControlValue(255), d) : d \in {0, LongMs}}

SceneMessages ==
    {SceneMsg("bright", ms, ff) :
        ms \in {None, Some(LongMs)},
        ff \in {None, Some(<<"A">>), Some(<<"b">>), Some(<<"B">>)}}
    \cup {SceneMsg("BLACKOUT", ms, None) : ms \in {None, Some(LongMs)}}

\* the messages of the tick loop specification
Messages ==
    MidiMessages \cup MacroDirectMessages \cup MacroAnimationMessages
        \cup {SceneMsg("bright", Some(LongMs), None)}

\* the messages of the scene recall specification
RecallMessages == SceneMessages

\* the messages of the specification with fairness: those that install an
\* animation, and a direct set that arrives while one runs
LiveMessages ==
    MacroAnimationMessages \cup MacroDirectMessages
        \cup {SceneMsg("bright", Some(LongMs), None)}

\* the messages of the scene view specification
ViewMessages == {MacroAnimationMsg(None, "dim", ControlValue(255), LongMs)}

\* the messages of the specification with overlapping fixtures: each of the
\* two fixtures is set and animated on its own
AliasMessages ==
    {MacroDirectMsg(Some("a"), "dim", ControlValue(128)),
     MacroDirectMsg(Some("b"), "dim", ControlValue(200)),
     MacroAnimationMsg(Some("a"), "dim", ControlValue(255), LongMs),
     MacroAnimationMsg(Some("b"), "dim", ControlValue(255), LongMs)}

\* the messages of the addressing specification: with and without a fixture
\* label, in a case other than the project's
AddressMessages ==
    {MacroDirectMsg(fl, "DIM", ControlValue(128)) : fl \in {None, Some("a"), Some("B")}}
        \cup {MacroDirectMsg(Some("a"), "col", ColourValue(Red))}
        \cup {MacroAnimationMsg(fl, "dim", ControlValue(255), LongMs) :
                 fl \in {None, Some("B")}}

\* the messages of the specification of addressing errors: labels that no
\* scene, fixture or macro carries, next to one message that starts animations
MissMessages ==
    {MacroDirectMsg(Some("zzz"), "dim", ControlValue(128)),
     MacroDirectMsg(None, "nope", ControlValue(128)),
     MacroDirectMsg(Some("B"), "col", ColourValue(Red)),
     MacroAnimationMsg(Some("zzz"), "dim", ControlValue(255), LongMs),
     MacroAnimationMsg(None, "nope", ControlValue(255), LongMs),
     SceneMsg("nope", None, None),
     MacroAnimationMsg(None, "dim", ControlValue(255), LongMs)}

\* the messages of the specification of kind mismatches
KindMessages ==
    {MacroDirectMsg(None, "col", ControlValue(128)),
     MacroDirectMsg(None, "dim", ColourValue(Red)),
     MacroAnimationMsg(None, "col", ControlValue(255), LongMs),
     MacroAnimationMsg(None, "col", ColourValue(Red), LongMs),
     MacroAnimationMsg(None, "dim", ColourValue(Red), LongMs),
     MacroAnimationMsg(None, "dim", ControlValue(255), LongMs),
     SceneMsg("mixed", None, None),
     SceneMsg("mixed", Some(LongMs), None)}

\* the messages of the specification of doubled scene keys: recalls of the
\* scene with and without a duration and a filter
DupMessages ==
    {SceneMsg("dup", ms, ff) :
        ms \in {None, Some(LongMs)},
        ff \in {None, Some(<<"A">>), Some(<<"A", "a">>)}}

\* the messages of the scene label specification: a direct set, and the
\* recall by label of a scene the view has added
LabelMessages ==
    {MacroDirectMsg(None, "dim", ControlValue(128)),
     SceneMsg("new scene 1", None, None)}

----------------------------------------------------------------------------
(* The state after Model::new *)

NoOp == [op |-> "none", arg |-> <<>>, pre |-> <<>>]

Init ==
    /\ fixtures = InitFixtures
    /\ scenes = InitScenes
    /\ channels_state = ApplyHomeValues(InitFixtures)
    /\ apply_macros = FALSE
    /\ selected_macro_group_index = 0
    /\ tether_rx = <<>>
    /\ pc = "idle"
    /\ work_done = FALSE
    /\ sent_count = 0
    /\ go_count = 0
    /\ settings = NormalMode
    /\ drain_start = <<>>
    /\ applied = <<>>
    /\ last = NoOp

\* the state after Model::new for the project with overlapping fixtures
AliasInit ==
    /\ fixtures = AliasFixtures
    /\ scenes = InitScenes
    /\ channels_state = ApplyHomeValues(AliasFixtures)
    /\ apply_macros = FALSE
    /\ selected_macro_group_index = 0
    /\ tether_rx = <<>>
    /\ pc = "idle"
    /\ work_done = FALSE
    /\ sent_count = 0
    /\ go_count = 0
    /\ settings = NormalMode
    /\ drain_start = <<>>
    /\ applied = <<>>
    /\ last = NoOp

\* the state after Model::new for the project with doubled scene keys
DupInit ==
    /\ fixtures = InitFixtures
    /\ scenes = DupScenes
    /\ channels_state = ApplyHomeValues(InitFixtures)
    /\ apply_macros = FALSE
    /\ selected_macro_group_index = 0
    /\ tether_rx = <<>>
    /\ pc = "idle"
    /\ work_done = FALSE
    /\ sent_count = 0
    /\ go_count = 0
    /\ settings = NormalMode
    /\ drain_start = <<>>
    /\ applied = <<>>
    /\ last = NoOp

\* the state after Model::new for a project that has no scene yet
StoreInit ==
    /\ fixtures = InitFixtures
    /\ scenes = <<>>
    /\ channels_state = ApplyHomeValues(InitFixtures)
    /\ apply_macros = FALSE
    /\ selected_macro_group_index = 0
    /\ tether_rx = <<>>
    /\ pc = "idle"
    /\ work_done = FALSE
    /\ sent_count = 0
    /\ go_count = 0
    /\ settings = NormalMode
    /\ drain_start = <<>>
    /\ applied = <<>>
    /\ last = NoOp

\* the settings the command line can give
Modes ==[auto_random : BOOLEAN, auto_zero : BOOLEAN]

\* the state after Model::new under any settings
ModeInit ==
    /\ fixtures = InitFixtures
    /\ scenes = InitScenes
    /\ channels_state = ApplyHomeValues(InitFixtures)
    /\ apply_macros = FALSE
    /\ selected_macro_group_index = 0
    /\ tether_rx = <<>>
    /\ pc = "idle"
    /\ work_done = FALSE
    /\ sent_count = 0
    /\ go_count = 0
    /\ settings \in Modes
    /\ drain_start = <<>>
    /\ applied = <<>>
    /\ last = NoOp

(* A producer thread sends a message *)

Send(messages) ==
    /\ sent_count < MaxMsgs
    /\ pc # "crashed"
    /\ \E msg \in messages : tether_rx' = Append(tether_rx, msg)
    /\ sent_count' = sent_count + 1
    /\ UNCHANGED <<settings, fixtures, scenes, channels_state, apply_macros,
                   selected_macro_group_index, pc, work_done, go_count,
                   drain_start, applied, last>>

Enqueue == Send(Messages)

EnqueueRecall == Send(RecallMessages)

EnqueueView == Send(ViewMessages)

EnqueueLive == Send(LiveMessages)

EnqueueAddress == Send(AddressMessages)

EnqueueAlias == Send(AliasMessages)

EnqueueDirect == Send(MacroDirectMessages)

EnqueueMiss == Send(MissMessages)

EnqueueKind == Send(KindMessages)

EnqueueLabel == Send(LabelMessages)

EnqueueDup == Send(DupMessages)

(* Model::update *)

UpdateBegin ==
    /\ pc = "idle"
    /\ pc' = "drain"
    /\ work_done' = FALSE
    /\ drain_start' = tether_rx
    /\ applied' = <<>>
    /\ UNCHANGED <<settings, fixtures, scenes, channels_state, apply_macros,
                   selected_macro_group_index, tether_rx, sent_count, go_count, last>>

\* try_recv: the message the loop takes from the queue
Received(queue) == Head(queue)
Remaining(queue) == Tail(queue)

\* faulty variant: the loop writes a channel of the buffer itself
DrainCommonWritesBuffer(type) ==
    /\ pc = "drain"
    /\ tether_rx # <<>>
    /\ Received(tether_rx).type = type
    /\ tether_rx' = Remaining(tether_rx)
    /\ applied' = Append(applied, Received(tether_rx))
    /\ work_done' = TRUE
    /\ apply_macros' = TRUE
    /\ channels_state' = [channels_state EXCEPT ![0] = 0]
    /\ UNCHANGED <<settings, sent_count, go_count, drain_start>>

\* what every iteration of the while loop does before the match
DrainCommon(type) ==
    /\ pc = "drain"
    /\ tether_rx # <<>>
    /\ Received(tether_rx).type = type
    /\ tether_rx' = Remaining(tether_rx)
    /\ applied' = Append(applied, Received(tether_rx))
    /\ work_done' = TRUE
    /\ apply_macros' = TRUE
    /\ UNCHANGED <<settings, channels_state, sent_count, go_count, drain_start>>

DrainMidi ==
    /\ DrainCommon("Midi")
    /\ \E out \in HandleMidiMessage(Received(tether_rx).midi,
                                    selected_macro_group_index) :
          /\ pc' = IF out.panic THEN "crashed" ELSE "drain"
          /\ selected_macro_group_index' = out.index
    /\ last' = [op |-> "midi", arg |-> Received(tether_rx), pre |-> fixtures]
    /\ UNCHANGED <<fixtures, scenes>>

DrainMacroDirect ==
    /\ DrainCommon("MacroDirect")
    /\ fixtures' = HandleMacroMessage(fixtures, Received(tether_rx))
    /\ last' = [op |-> "direct", arg |-> Received(tether_rx), pre |-> fixtures]
    /\ UNCHANGED <<scenes, selected_macro_group_index, pc>>

DrainMacroAnimation ==
    /\ DrainCommon("MacroAnimation")
    /\ fixtures' = HandleAnimationMessage(fixtures, Received(tether_rx))
    /\ last' = [op |-> "animation", arg |-> Received(tether_rx), pre |-> fixtures]
    /\ UNCHANGED <<scenes, selected_macro_group_index, pc>>

\* Model::handle_scene_message
DrainScene ==
    /\ DrainCommon("SceneAnimation")
    /\ LET msg == Received(tether_rx)
           index == FindScene(scenes, msg.scene_label)
       IN IF index >= 0
          THEN /\ scenes' = [scenes EXCEPT ![index + 1].last_active = Some(Now)]
               /\ \E order \in KeyOrders(scenes[index + 1].state) :
                     fixtures' = ApplyScene(fixtures, scenes, index, msg.ms,
                                            msg.fixture_filters, order)
               /\ last' = [op |-> "scene",
                           arg |-> [scene_index |-> index, animation_ms |-> msg.ms,
                                    fixture_filters |-> msg.fixture_filters],
                           pre |-> fixtures]
          ELSE /\ UNCHANGED <<scenes, fixtures>>
               /\ last' = [op |-> "scene_miss", arg |-> msg, pre |-> fixtures]
    /\ UNCHANGED <<selected_macro_group_index, pc>>

\* faulty variant: the loop is left after one message (if let for while let)
QueueDrainedOrOneTaken == tether_rx = <<>> \/ applied # <<>>

\* try_recv finds the queue empty
QueueDrained == tether_rx = <<>>

DrainEnd ==
    /\ pc = "drain"
    /\ QueueDrained
    /\ pc' = "resolve"
    /\ UNCHANGED <<settings, fixtures, scenes, channels_state, apply_macros,
                   selected_macro_group_index, tether_rx, work_done,
                   sent_count, go_count, drain_start, applied, last>>

\* faulty variant: the flag is cleared once the frame was sent
ResolveSentClearsFlag ==
    /\ pc = "resolve"
    /\ ~AutoRandom /\ ~AutoZero
    /\ \E dt \in 1 .. MaxDt :
          IF apply_macros
          THEN /\ fixtures' = AnimateMacros(fixtures, dt)
               /\ channels_state' = ArtNetState(channels_state, fixtures, apply_macros)
               /\ last' = [op |-> "tick", arg |-> dt, pre |-> fixtures]
          ELSE UNCHANGED <<fixtures, channels_state, last>>
    /\ work_done' = FALSE
    /\ pc' = "idle"
    /\ apply_macros' = FALSE
    /\ UNCHANGED <<settings, scenes, selected_macro_group_index, tether_rx,
                   sent_count, go_count, drain_start, applied>>

\* artnet.update returned true: the frame was resolved and sent. work_done
\* is a local of update() and is gone when update() returns.
ResolveSent ==
    /\ pc = "resolve"
    /\ ~AutoRandom /\ ~AutoZero
    /\ \E dt \in 1 .. MaxDt :
          IF apply_macros
          THEN /\ fixtures' = AnimateMacros(fixtures, dt)
               /\ channels_state' = ArtNetState(channels_state, fixtures, apply_macros)
               /\ last' = [op |-> "tick", arg |-> dt, pre |-> fixtures]
          ELSE UNCHANGED <<fixtures, channels_state, last>>
    /\ work_done' = FALSE
    /\ pc' = "idle"
    /\ UNCHANGED <<settings, scenes, apply_macros, selected_macro_group_index, tether_rx,
                   sent_count, go_count, drain_start, applied>>

\* artnet.update returned false: it is not yet time for the next frame
ResolveSkip ==
    /\ pc = "resolve"
    /\ ~AutoRandom /\ ~AutoZero
    /\ pc' = "idle"
    /\ work_done' = FALSE
    /\ UNCHANGED <<settings, fixtures, scenes, channels_state, apply_macros,
                   selected_macro_group_index, tether_rx,
                   sent_count, go_count, drain_start, applied, last>>

(* Model::update with a test switch on: the buffer is handed to random()   *)
(* or to zero() in place of the resolve, whatever apply_macros is          *)

\* zero(&mut channels_state): every channel is 0
Zero(buffer) == [c \in DOMAIN buffer |-> 0]

\* random(&mut channels_state): buffers the random fill can produce
Random(buffer) == {[c \in DOMAIN buffer |-> v] : v \in {1, 254}}

TickRandom ==
    /\ pc = "resolve"
    /\ AutoRandom
    /\ channels_state' \in Random(channels_state)
    /\ pc' = "idle"
    /\ work_done' = FALSE
    /\ UNCHANGED <<settings, fixtures, scenes, apply_macros,
                   selected_macro_group_index, tether_rx,
                   sent_count, go_count, drain_start, applied, last>>

TickZero ==
    /\ pc = "resolve"
    /\ ~AutoRandom /\ AutoZero
    /\ channels_state' = Zero(channels_state)
    /\ pc' = "idle"
    /\ work_done' = FALSE
    /\ UNCHANGED <<settings, fixtures, scenes, apply_macros,
                   selected_macro_group_index, tether_rx,
                   sent_count, go_count, drain_start, applied, last>>

(* render_scenes: the GO button calls apply_scene with no animation *)

GoScene ==
    /\ pc = "idle"
    /\ go_count < MaxGo
    /\ go_count' = go_count + 1
    /\ \E scene_index \in 0 .. Len(scenes) - 1 :
          /\ \E order \in KeyOrders(scenes[scene_index + 1].state) :
                fixtures' = ApplyScene(fixtures, scenes, scene_index, None, None, order)
          /\ last' = [op |-> "scene",
                      arg |-> [scene_index |-> scene_index, animation_ms |-> None,
                               fixture_filters |-> None],
                      pre |-> fixtures]
    /\ apply_macros' = TRUE
    /\ UNCHANGED <<settings, scenes, channels_state, selected_macro_group_index, tether_rx,
                   pc, work_done, sent_count, drain_start, applied>>

(* render_scenes: the "+ Add New" button and the delete button of a scene *)

\* the index of the last element of s that carries the label: a later
\* HashMap::insert under the same key replaces the earlier value
LastWithLabel(s, label) ==
    CHOOSE i \in DOMAIN s :
        /\ s[i].label = label
        /\ \A k \in DOMAIN s : s[k].label = label => k <= i

\* faulty variant: every label of the fixture gets the value of its first macro
MacroStateOfFirst(macros) ==
    [l \in {macros[j].label : j \in DOMAIN macros} |->
        LET m == macros[1]
        IN IF m.kind = "Control"
           THEN ControlValue(m.current_value)
           ELSE ColourValue(m.current_value)]

\* m_state: the current value of each macro of one fixture, by macro label
MacroState(macros) ==
    [l \in {macros[j].label : j \in DOMAIN macros} |->
        LET m == macros[LastWithLabel(macros, l)]
        IN IF m.kind = "Control"
           THEN ControlValue(m.current_value)
           ELSE ColourValue(m.current_value)]

\* state: the macro values of each fixture, by fixture label
Snapshot(fx) ==
    [l \in {fx[i].label : i \in DOMAIN fx} |->
        MacroState(fx[LastWithLabel(fx, l)].macros)]

\* format!("New Scene {}", model.project.scenes.len())
NewSceneLabel(n) == "New Scene " \o ToString(n)

AddScene ==
    /\ pc = "idle"
    /\ Len(scenes) < MaxScenes
    /\ scenes' = Append(scenes, [label |-> NewSceneLabel(Len(scenes)),
                                 state |-> Snapshot(fixtures),
                                 is_editing |-> FALSE,
                                 last_active |-> None])
    /\ last' = [op |-> "add_scene", arg |-> Len(scenes), pre |-> fixtures]
    /\ UNCHANGED <<settings, fixtures, channels_state, apply_macros,
                   selected_macro_group_index, tether_rx, pc, work_done,
                   sent_count, go_count, drain_start, applied>>

\* Vec::remove
Remove(s, index) ==
    [i \in 1 .. Len(s) - 1 |-> IF i <= index THEN s[i] ELSE s[i + 1]]

DeleteScene ==
    /\ pc = "idle"
    /\ \E scene_index \in 0 .. Len(scenes) - 1 :
          /\ scenes' = Remove(scenes, scene_index)
          /\ last' = [op |-> "delete_scene", arg |-> scene_index, pre |-> fixtures]
    /\ UNCHANGED <<settings, fixtures, channels_state, apply_macros,
                   selected_macro_group_index, tether_rx, pc, work_done,
                   sent_count, go_count, drain_start, applied>>

(* A direct call of the public Model::apply_scene between two updates, with *)
(* any index: Len(scenes) is the first index that is out of range          *)

\* what apply_scene hands back to its caller: the function has no return
\* type, and both arms of its match end in ()
ApplySceneReturn(scs, scene_index) ==
    IF SceneFound(scs, scene_index) THEN "()" ELSE "()"

\* faulty variant: apply_scene does not set apply_macros
CallApplySceneKeepsFlag ==
    /\ pc = "idle"
    /\ go_count < MaxGo
    /\ go_count' = go_count + 1
    /\ \E scene_index \in 0 .. Len(scenes), animation_ms \in {None, Some(LongMs)} :
          /\ IF SceneFound(scenes, scene_index)
             THEN /\ \E order \in KeyOrders(scenes[scene_index + 1].state) :
                        fixtures' = ApplyScene(fixtures, scenes, scene_index,
                                               animation_ms, None, order)
                  /\ apply_macros' = apply_macros
             ELSE /\ fixtures' = ApplyScene(fixtures, scenes, scene_index,
                                            animation_ms, None, <<>>)
                  /\ apply_macros' = apply_macros
          /\ last' = [op |-> IF SceneFound(scenes, scene_index)
                             THEN "scene" ELSE "scene_not_found",
                      arg |-> [scene_index |-> scene_index,
                               animation_ms |-> animation_ms,
                               fixture_filters |-> None],
                      pre |-> fixtures,
                      scenes_pre |-> scenes,
                      apply_macros_pre |-> apply_macros,
                      ret |-> ApplySceneReturn(scenes, scene_index)]
    /\ UNCHANGED <<settings, scenes, channels_state, selected_macro_group_index, tether_rx,
                   pc, work_done, sent_count, drain_start, applied>>

CallApplyScene ==
    /\ pc = "idle"
    /\ go_count < MaxGo
    /\ go_count' = go_count + 1
    /\ \E scene_index \in 0 .. Len(scenes), animation_ms \in {None, Some(LongMs)} :
          /\ IF SceneFound(scenes, scene_index)
             THEN /\ \E order \in KeyOrders(scenes[scene_index + 1].state) :
                        fixtures' = ApplyScene(fixtures, scenes, scene_index,
                                               animation_ms, None, order)
                  /\ apply_macros' = TRUE
             ELSE /\ fixtures' = ApplyScene(fixtures, scenes, scene_index,
                                            animation_ms, None, <<>>)
                  /\ apply_macros' = apply_macros
          /\ last' = [op |-> IF SceneFound(scenes, scene_index)
                             THEN "scene" ELSE "scene_not_found",
                      arg |-> [scene_index |-> scene_index,
                               animation_ms |-> animation_ms,
                               fixture_filters |-> None],
                      pre |-> fixtures,
                      scenes_pre |-> scenes,
                      apply_macros_pre |-> apply_macros,
                      ret |-> ApplySceneReturn(scenes, scene_index)]
    /\ UNCHANGED <<settings, scenes, channels_state, selected_macro_group_index, tether_rx,
                   pc, work_done, sent_count, drain_start, applied>>

Next ==
    \/ Enqueue
    \/ UpdateBegin
    \/ DrainMidi
    \/ DrainMacroDirect
    \/ DrainMacroAnimation
    \/ DrainScene
    \/ DrainEnd
    \/ ResolveSent
    \/ ResolveSkip

Spec == Init /\ [][Next]_vars

(* The scene recall specification: scene recalls by message, with every    *)
(* filter, over animations in flight                                       *)

NextRecall ==
    \/ EnqueueRecall
    \/ UpdateBegin
    \/ DrainScene
    \/ DrainEnd
    \/ ResolveSent
    \/ ResolveSkip

RecallSpec == Init /\ [][NextRecall]_vars


(* The scene view specification: the GO button next to animations started *)
(* by message                                                              *)

NextView ==
    \/ EnqueueView
    \/ UpdateBegin
    \/ DrainMacroAnimation
    \/ DrainEnd
    \/ ResolveSent
    \/ ResolveSkip
    \/ GoScene
    \/ CallApplyScene

ViewSpec == Init /\ [][NextView]_vars

(* The tick loop under the scheduling of the owner thread: main() calls    *)
(* update() in a loop, every started update() runs to its end, and         *)
(* artnet.update returns true again and again as its send interval passes  *)

NextLive ==
    \/ EnqueueLive
    \/ UpdateBegin
    \/ DrainMacroDirect
    \/ DrainMacroAnimation
    \/ DrainScene
    \/ DrainEnd
    \/ ResolveSent
    \/ ResolveSkip

Drain == DrainMacroDirect \/ DrainMacroAnimation \/ DrainScene

FairSpec ==
    /\ Init /\ [][NextLive]_vars
    /\ WF_vars(UpdateBegin)
    /\ WF_vars(Drain)
    /\ WF_vars(DrainEnd)
    /\ SF_vars(ResolveSent)


(* The addressing specification: direct sets and animations by message,    *)
(* addressed with and without a fixture label                              *)

NextAddress ==
    \/ EnqueueAddress
    \/ UpdateBegin
    \/ DrainMacroDirect
    \/ DrainMacroAnimation
    \/ DrainEnd
    \/ ResolveSent
    \/ ResolveSkip

AddressSpec == Init /\ [][NextAddress]_vars

(* The specification of addressing errors: messages whose scene, fixture   *)
(* or macro label nothing in the project carries                           *)

NextMiss ==
    \/ EnqueueMiss
    \/ UpdateBegin
    \/ DrainMacroDirect
    \/ DrainMacroAnimation
    \/ DrainScene
    \/ DrainEnd
    \/ ResolveSent
    \/ ResolveSkip

MissSpec == Init /\ [][NextMiss]_vars

(* The specification of kind mismatches: Control values for Colour macros  *)
(* and Colour values for Control macros, by message and by scene           *)

NextKind ==
    \/ EnqueueKind
    \/ UpdateBegin
    \/ DrainMacroDirect
    \/ DrainMacroAnimation
    \/ DrainScene
    \/ DrainEnd
    \/ ResolveSent
    \/ ResolveSkip

KindSpec == Init /\ [][NextKind]_vars

(* The specification with overlapping fixtures *)

NextAlias ==
    \/ EnqueueAlias
    \/ UpdateBegin
    \/ DrainMacroDirect
    \/ DrainMacroAnimation
    \/ DrainEnd
    \/ ResolveSent
    \/ ResolveSkip

AliasSpec == AliasInit /\ [][NextAlias]_vars

(* The specification of the apply_macros flag: animations installed by    *)
(* direct calls of apply_scene with a duration, next to direct sets by     *)
(* message                                                                 *)

NextFlag ==
    \/ EnqueueDirect
    \/ UpdateBegin
    \/ DrainMacroDirect
    \/ DrainEnd
    \/ ResolveSent
    \/ ResolveSkip
    \/ CallApplyScene

FlagSpec == Init /\ [][NextFlag]_vars

(* The specification of the engine under every setting of the test        *)
(* switches, with animations by message and the GO button                  *)

NextMode ==
    \/ EnqueueView
    \/ UpdateBegin
    \/ DrainMacroAnimation
    \/ DrainEnd
    \/ ResolveSent
    \/ ResolveSkip
    \/ TickRandom
    \/ TickZero
    \/ GoScene

ModeSpec == ModeInit /\ [][NextMode]_vars

(* The scene store specification: the "+ Add New" and GO buttons of the    *)
(* scene view on a project without scenes, next to direct sets by message  *)

NextStore ==
    \/ EnqueueDirect
    \/ UpdateBegin
    \/ DrainMacroDirect
    \/ DrainEnd
    \/ ResolveSent
    \/ ResolveSkip
    \/ AddScene
    \/ GoScene

StoreSpec == StoreInit /\ [][NextStore]_vars

(* The scene label specification: the "+ Add New" and delete buttons of    *)
(* the scene view on a project without scenes, next to direct sets and     *)
(* recalls by label                                                        *)

NextLabel ==
    \/ EnqueueLabel
    \/ UpdateBegin
    \/ DrainMacroDirect
    \/ DrainScene
    \/ DrainEnd
    \/ ResolveSent
    \/ ResolveSkip
    \/ AddScene
    \/ DeleteScene

LabelSpec == StoreInit /\ [][NextLabel]_vars

(* The specification of doubled scene keys: recalls by message of a scene  *)
(* whose state map names one fixture under two keys                        *)

NextDup ==
    \/ EnqueueDup
    \/ UpdateBegin
    \/ DrainScene
    \/ DrainEnd
    \/ ResolveSent
    \/ ResolveSkip

DupSpec == DupInit /\ [][NextDup]_vars

----------------------------------------------------------------------------
(* Helpers of the claims *)

IsPrefix(a, b) == Len(a) <= Len(b) /\ \A i \in DOMAIN a : a[i] = b[i]

\* the macros (fixture index, macro index) a direct or animation message addresses
Addressed(fx, msg) ==
    {<<i, FindMacro(fx[i].macros, msg.macro_label)>> :
        i \in {k \in GetTargetFixturesList(fx, msg.fixture_label) :
                  FindMacro(fx[k].macros, msg.macro_label) # 0}}

ControlMacros(fx) ==
    {<<i, j>> \in (DOMAIN fx) \X (1 .. 2) :
        j \in DOMAIN fx[i].macros /\ fx[i].macros[j].kind = "Control"}

\* the state of the scene the last apply_scene call applied
LastSceneState == scenes[last.arg.scene_index + 1].state

\* the keys of the scene that match a fixture label, ignoring case
MatchingKeys(state, label) == {k \in DOMAIN state : EqIgnoreCase(k, label)}

\* a label is named by a filter, ignoring case
InFilter(label, fixture_filters) ==
    \E f \in Range(Unwrap(fixture_filters)) : EqIgnoreCase(f, label)

----------------------------------------------------------------------------
\* C1: after a direct macro-set message with a Control value is applied to a
\* matching Control macro, the macro's current_value is the message value and
\* the macro has no animation, whatever its state was before.
C1_DirectSetReplacesAnimation ==
    (last.op = "direct" /\ last.arg.value.kind = "ControlValue") =>
        \A a \in Addressed(last.pre, last.arg) :
            last.pre[a[1]].macros[a[2]].kind = "Control" =>
                /\ fixtures[a[1]].macros[a[2]].current_value = last.arg.value.value
                /\ fixtures[a[1]].macros[a[2]].animation = None

\* C2: after apply_scene with no duration, a Control macro of a target fixture
\* that the scene gives a Control target holds that target and has no animation.
C2_ImmediateRecallDiscardsAnimation ==
    (last.op = "scene" /\ last.arg.animation_ms = None) =>
        \A a \in ControlMacros(last.pre) :
            \A k \in DOMAIN LastSceneState :
                LET m == last.pre[a[1]].macros[a[2]]
                IN (/\ IsTargetFixture(last.pre[a[1]], k, last.arg.fixture_filters)
                    /\ m.label \in DOMAIN LastSceneState[k]
                    /\ LastSceneState[k][m.label].kind = "ControlValue") =>
                       /\ fixtures[a[1]].macros[a[2]].current_value
                              = LastSceneState[k][m.label].value
                       /\ fixtures[a[1]].macros[a[2]].animation = None

\* C3: no remote control message drives the engine into a crashed state.
C3_NoMessageHaltsTheEngine == pc # "crashed"

\* C4: whenever a tick clears an animation, the macro's current_value is the
\* quantised end value of that animation: the terminal frame is written first.
C4_TerminalFrameWritten ==
    last.op = "tick" =>
        \A a \in ControlMacros(last.pre) :
            LET before == last.pre[a[1]].macros[a[2]]
                after == fixtures[a[1]].macros[a[2]]
            IN (IsSome(before.animation) /\ after.animation = None) =>
                   after.current_value = F32ToU8(Unwrap(before.animation).end)

C4_Witness ==
    /\ last.op = "tick"
    /\ \E a \in ControlMacros(last.pre) :
          LET before == last.pre[a[1]].macros[a[2]]
              after == fixtures[a[1]].macros[a[2]]
          IN /\ IsSome(before.animation)
             /\ after.animation = None
             /\ before.current_value # after.current_value
             /\ after.current_value = 255

\* C5: every animation installed on a Control macro is eventually cleared while
\* the tick loop runs; a tick clears it exactly when the elapsed time has
\* reached the duration, and then the macro holds the target value.
C5_TickDone ==
    last.op = "tick" =>
        \A a \in ControlMacros(last.pre) :
            LET before == last.pre[a[1]].macros[a[2]]
                after == fixtures[a[1]].macros[a[2]]
                old == Unwrap(before.animation)
            IN IsSome(before.animation) =>
                  IF old.elapsed + last.arg >= old.duration
                  THEN /\ after.animation = None
                       /\ ByteToF32(after.current_value) = old.end
                  ELSE /\ after.animation = Some([old EXCEPT !.elapsed = @ + last.arg])
                       /\ Unwrap(after.animation).elapsed < old.duration

C5_AnimationEventuallyCleared ==
    /\ []C5_TickDone
    /\ \A a \in ControlMacros(InitFixtures) :
          IsSome(fixtures[a[1]].macros[a[2]].animation)
              ~> (fixtures[a[1]].macros[a[2]].animation = None)

C5_Witness ==
    /\ last.op = "tick"
    /\ \E a \in ControlMacros(last.pre) :
          LET before == last.pre[a[1]].macros[a[2]]
          IN /\ IsSome(before.animation)
             /\ Unwrap(before.animation).duration > 0
             /\ Unwrap(before.animation).elapsed > 0
             /\ fixtures[a[1]].macros[a[2]].animation = None

\* C6: a macro-animation message with a Control target installs on the matching
\* Control macro one animation from the macro's current value to the target,
\* replacing any animation running there; a macro holds at most one animation.
C6_AnimationInstalled ==
    /\ \A a \in ControlMacros(fixtures) : Len(fixtures[a[1]].macros[a[2]].animation) <= 1
    /\ (last.op = "animation" /\ last.arg.target_value.kind = "ControlValue") =>
          \A a \in Addressed(last.pre, last.arg) :
              LET before == last.pre[a[1]].macros[a[2]]
                  after == fixtures[a[1]].macros[a[2]]
              IN before.kind = "Control" =>
                    /\ after.animation =
                          Some([duration |-> last.arg.duration,
                                start |-> before.current_value * EaseOne,
                                end |-> last.arg.target_value.value * EaseOne,
                                elapsed |-> 0])
                    /\ after.current_value = before.current_value

C6_Witness ==
    /\ last.op = "animation"
    /\ \E a \in Addressed(last.pre, last.arg) :
          LET before == last.pre[a[1]].macros[a[2]]
              after == fixtures[a[1]].macros[a[2]]
          IN /\ before.kind = "Control"
             /\ IsSome(before.animation)
             /\ Unwrap(before.animation).elapsed > 0
             /\ after.animation # before.animation
             /\ Unwrap(after.animation).start = before.current_value * EaseOne

\* C7: the messages queued when the drain starts are applied in queue order,
\* all of them before the resolve step of that tick; and once a tick has
\* processed a message the apply_macros flag is true.
C7_DrainFifoBeforeResolve ==
    /\ IsPrefix(drain_start, applied \o tether_rx)
    /\ pc = "resolve" => IsPrefix(drain_start, applied)
    /\ applied # <<>> => apply_macros

C7_Witness ==
    /\ pc = "resolve"
    /\ Len(drain_start) >= 2
    /\ drain_start[1] # drain_start[2]
    /\ applied = drain_start


\* the effect of a recall on a Control macro that the scene gives a Control target
RecallApplied(before, after, target, animation_ms) ==
    IF IsSome(animation_ms)
    THEN /\ after.current_value = before.current_value
         /\ after.animation =
               Some([duration |-> Unwrap(animation_ms),
                     start |-> before.current_value * EaseOne,
                     end |-> target * EaseOne,
                     elapsed |-> 0])
    ELSE after.current_value = target

\* C8: a recall targets a fixture if and only if the fixture's label matches a
\* key of the scene ignoring case and, when a filter is given, the fixture's
\* label is in the filter. A targeted fixture takes the scene's Control targets;
\* a fixture that is not targeted is left as it was.
C8_TargetedIffKeyAndLabelInFilter ==
    last.op = "scene" =>
        \A i \in DOMAIN last.pre :
            LET label == last.pre[i].label
                keys == MatchingKeys(LastSceneState, label)
                targeted ==
                    /\ keys # {}
                    /\ IsSome(last.arg.fixture_filters) =>
                          InFilter(label, last.arg.fixture_filters)
            IN IF targeted
               THEN \A j \in DOMAIN last.pre[i].macros : \A k \in keys :
                       LET m == last.pre[i].macros[j]
                       IN (/\ m.kind = "Control"
                           /\ m.label \in DOMAIN LastSceneState[k]
                           /\ LastSceneState[k][m.label].kind = "ControlValue") =>
                              RecallApplied(m, fixtures[i].macros[j],
                                            LastSceneState[k][m.label].value,
                                            last.arg.animation_ms)
               ELSE fixtures[i] = last.pre[i]

\* C9: a recall with a fixture filter leaves every macro (value and animation)
\* of every fixture whose label the filter does not name unchanged.
C9_FilterLaw ==
    (last.op = "scene" /\ IsSome(last.arg.fixture_filters)) =>
        \A i \in DOMAIN last.pre :
            ~InFilter(last.pre[i].label, last.arg.fixture_filters) =>
                fixtures[i] = last.pre[i]

C9_Witness ==
    /\ last.op = "scene"
    /\ last.arg.fixture_filters = Some(<<"A">>)
    /\ last.arg.animation_ms = None
    /\ MatchingKeys(LastSceneState, last.pre[1].label) # {}
    /\ MatchingKeys(LastSceneState, last.pre[2].label) # {}
    /\ fixtures[1] # last.pre[1]
    /\ fixtures[2] = last.pre[2]
    /\ fixtures[2].macros[1].current_value # LastSceneState["B"]["Dim"].value

\* C10: a recall leaves every macro of a fixture the scene has no entry for
\* unchanged, and on a targeted fixture it leaves every macro unchanged whose
\* label the scene's state for that fixture does not hold.
C10_PartialOverlay ==
    last.op = "scene" =>
        \A i \in DOMAIN last.pre :
            LET keys == MatchingKeys(LastSceneState, last.pre[i].label)
            IN /\ keys = {} => fixtures[i] = last.pre[i]
               /\ \A j \in DOMAIN last.pre[i].macros :
                     (\A k \in keys :
                         last.pre[i].macros[j].label \notin DOMAIN LastSceneState[k])
                        => fixtures[i].macros[j] = last.pre[i].macros[j]

C10_Witness ==
    /\ last.op = "scene"
    /\ last.arg.scene_index = 1
    /\ MatchingKeys(LastSceneState, fixtures[2].label) = {}
    /\ "Col" \notin DOMAIN LastSceneState["A"]
    /\ fixtures[1].macros[1] # last.pre[1].macros[1]
    /\ fixtures[1].macros[2].current_value = Red
    /\ fixtures[2].macros[1].current_value = 128

----------------------------------------------------------------------------
\* the last two messages of this drain are the same scene recall with no
\* duration, and the second of them is the operation that ran last
SameRecallTwice ==
    /\ pc \in {"drain", "resolve"}
    /\ Len(applied) >= 2
    /\ applied[Len(applied)] = applied[Len(applied) - 1]
    /\ applied[Len(applied)].type = "SceneAnimation"
    /\ applied[Len(applied)].ms = None
    /\ last.op = "scene"

\* C11: a recall with no duration is idempotent: directly after such a recall,
\* the same recall (same scene, same filter) changes no macro, and so the
\* buffer the next resolve computes from the macros is the same.
C11_RecallIdempotent ==
    /\ SameRecallTwice =>
          /\ fixtures = last.pre
          /\ ResolveFixtures(channels_state, fixtures, 1)
                = ResolveFixtures(channels_state, last.pre, 1)
    /\ (last.op = "scene" /\ last.arg.animation_ms = None) =>
          \A order \in KeyOrders(LastSceneState) :
              ApplyScene(fixtures, scenes, last.arg.scene_index, None,
                         last.arg.fixture_filters, order) = fixtures

C11_Witness ==
    /\ SameRecallTwice
    /\ last.arg.scene_index = 0
    /\ last.arg.fixture_filters = None
    /\ fixtures # InitFixtures
    /\ fixtures[1].macros[1].current_value = 255
    /\ fixtures[2].macros[1].current_value = 128

\* what C12 says of an out-of-range call apart from the reported outcome: the
\* engine goes on, and macros, scenes and the apply_macros flag are as before
C12_OutOfRangeIsNoOp ==
    last.op = "scene_not_found" =>
        /\ pc # "crashed"
        /\ fixtures = last.pre
        /\ scenes = last.scenes_pre
        /\ apply_macros = last.apply_macros_pre

\* C12: apply_scene with a scene_index out of range reports SceneNotFound to
\* its caller, does not stop the engine and leaves every macro, every scene
\* and the apply_macros flag unchanged.
C12_OutOfRangeReportsSceneNotFound ==
    /\ last.op = "scene_not_found" => last.ret = "SceneNotFound"
    /\ C12_OutOfRangeIsNoOp

\* C13: after every successful apply_scene call, from a recall message or from
\* a direct caller, the scene has a last_active timestamp and apply_macros is
\* set.
C13_RecallMarksSceneAndFlag ==
    last.op = "scene" =>
        /\ IsSome(scenes[last.arg.scene_index + 1].last_active)
        /\ apply_macros

\* round(value * 255.0) clamped to 0..255, on the fixed-point grid
RoundU8(v) ==
    LET t == (v + EaseOne \div 2) \div EaseOne
    IN IF v < 0 THEN 0 ELSE IF t > 255 THEN 255 ELSE t

\* C14: the byte a tick writes to the current_value of an animated macro is
\* round(v * 255) clamped to 0..255, where v is the value of the animation at
\* that tick; in particular a completed animation leaves its end byte.
C14_TickWritesRounded ==
    last.op = "tick" =>
        \A a \in ControlMacros(last.pre) :
            LET before == last.pre[a[1]].macros[a[2]]
                after == fixtures[a[1]].macros[a[2]]
            IN IsSome(before.animation) =>
                  after.current_value =
                      RoundU8(GetValueAndDone(Unwrap(before.animation), last.arg).value)

----------------------------------------------------------------------------
\* the value a direct or animation message carries
MessageValue(msg) ==
    IF msg.type = "MacroDirect" THEN msg.value ELSE msg.target_value

\* a fixture label is addressed by a message: no label, or the same label
\* ignoring case
FixtureAddressed(label, msg) ==
    msg.fixture_label = None \/ Lower(label) = Lower(Unwrap(msg.fixture_label))

\* the kind of a value agrees with the kind of a macro
KindsAgree(m, value) ==
    \/ m.kind = "Control" /\ value.kind = "ControlValue"
    \/ m.kind = "Colour" /\ value.kind = "ColourValue"

\* C15: a direct or animation message applies to the macro with the message's
\* macro label (ignoring case) of every fixture when it has no fixture label,
\* and of exactly the fixtures with that label (ignoring case) when it has one;
\* every other macro of every fixture is unchanged.
C15_AddressingByLabels ==
    last.op \in {"direct", "animation"} =>
        \A i \in DOMAIN last.pre : \A j \in DOMAIN last.pre[i].macros :
            LET before == last.pre[i].macros[j]
                after == fixtures[i].macros[j]
                value == MessageValue(last.arg)
            IN IF /\ FixtureAddressed(last.pre[i].label, last.arg)
                  /\ Lower(before.label) = Lower(last.arg.macro_label)
               THEN KindsAgree(before, value) =>
                       IF last.op = "direct"
                       THEN after.current_value =
                               IF before.kind = "Control" THEN value.value ELSE value.rgb
                       ELSE before.kind = "Control" =>
                               after.animation =
                                   Some([duration |-> last.arg.duration,
                                         start |-> before.current_value * EaseOne,
                                         end |-> value.value * EaseOne,
                                         elapsed |-> 0])
               ELSE after = before

C15_Witness ==
    /\ last.op = "direct"
    /\ last.arg.fixture_label = Some("a")
    /\ last.arg.macro_label = "DIM"
    /\ last.pre[1].label = "A"
    /\ last.pre[1].macros[1].current_value # 128
    /\ fixtures[1].macros[1].current_value = 128
    /\ fixtures[1].macros[2] = last.pre[1].macros[2]
    /\ fixtures[2] = last.pre[2]
    /\ fixtures[2].macros[1].current_value # 128

\* C16: a value whose kind does not agree with the kind of the macro it
\* addresses (direct set, animation, scene entry), and any animation message
\* for a Colour macro, leaves that macro as it was, and the engine goes on.
C16_KindMismatchIsNoOp ==
    /\ last.op \in {"direct", "animation"} =>
          \A i \in DOMAIN last.pre : \A j \in DOMAIN last.pre[i].macros :
              LET before == last.pre[i].macros[j]
              IN (/\ FixtureAddressed(last.pre[i].label, last.arg)
                  /\ Lower(before.label) = Lower(last.arg.macro_label)
                  /\ \/ ~KindsAgree(before, MessageValue(last.arg))
                     \/ last.op = "animation" /\ before.kind = "Colour")
                 => /\ fixtures[i].macros[j] = before
                    /\ pc # "crashed"
    /\ last.op = "scene" =>
          \A i \in DOMAIN last.pre : \A j \in DOMAIN last.pre[i].macros :
              LET before == last.pre[i].macros[j]
                  keys == {k \in MatchingKeys(LastSceneState, last.pre[i].label) :
                              before.label \in DOMAIN LastSceneState[k]}
              IN (/\ keys # {}
                  /\ \A k \in keys : ~KindsAgree(before, LastSceneState[k][before.label]))
                 => /\ fixtures[i].macros[j] = before
                    /\ pc # "crashed"

C16_Witness ==
    /\ last.op = "direct"
    /\ last.arg.macro_label = "col"
    /\ last.arg.value.kind = "ControlValue"
    /\ last.pre[1].macros[2].kind = "Colour"
    /\ fixtures[1].macros[2] = last.pre[1].macros[2]
    /\ IsSome(fixtures[1].macros[1].animation)
    /\ pc = "drain"

\* a message addresses a scene, a fixture or a macro that does not exist
AddressesNothing(fx, scs, msg) ==
    IF msg.type = "SceneAnimation"
    THEN \A i \in DOMAIN scs : Lower(scs[i].label) # Lower(msg.scene_label)
    ELSE /\ msg.type \in {"MacroDirect", "MacroAnimation"}
         /\ \A i \in DOMAIN fx :
               FixtureAddressed(fx[i].label, msg) =>
                   \A j \in DOMAIN fx[i].macros :
                       Lower(fx[i].macros[j].label) # Lower(msg.macro_label)

\* C17: handling a message that addresses a scene, fixture or macro label that
\* does not exist changes no fixture macro, no scene and not the selected
\* macro group, and leaves the engine in its drain loop.
C17_UnknownLabelIsNoOp ==
    [][(/\ pc = "drain"
        /\ tether_rx # <<>>
        /\ applied' # applied
        /\ AddressesNothing(fixtures, scenes, Head(tether_rx)))
       => (/\ fixtures' = fixtures
           /\ scenes' = scenes
           /\ selected_macro_group_index' = selected_macro_group_index
           /\ pc' = "drain")]_vars

C17_Witness ==
    /\ pc = "drain"
    /\ Len(applied) = 2
    /\ applied[2].type = "SceneAnimation"
    /\ AddressesNothing(fixtures, scenes, applied[2])
    /\ last.op = "scene_miss"
    /\ fixtures = last.pre
    /\ IsSome(fixtures[1].macros[1].animation)
    /\ \A i \in DOMAIN scenes : scenes[i].last_active = None

----------------------------------------------------------------------------
\* the mappings (fixture index, mapping index) that resolve to the absolute
\* channel index i
MappingsAt(fx, i) ==
    UNION {{<<k, n>> : n \in {x \in DOMAIN fx[k].mappings :
                fx[k].mappings[x].channel + fx[k].offset_channels - 1 = i}} :
           k \in DOMAIN fx}

\* the absolute channel indices some mapping resolves to
MappedIndices(fx) ==
    UNION {{fx[k].mappings[n].channel + fx[k].offset_channels - 1 :
                n \in DOMAIN fx[k].mappings} : k \in DOMAIN fx}

\* no operation has run since Model::new: the buffer is the startup buffer
AtStartup == last.op = "none"

\* what C18 says of the home pass alone: 512 entries, and an index that a
\* mapping with a home value resolves to holds such a home value
C18_HomePass ==
    AtStartup =>
        /\ DOMAIN channels_state = 0 .. CHANNELS_PER_UNIVERSE - 1
        /\ Cardinality(DOMAIN channels_state) = 512
        /\ \A i \in MappedIndices(fixtures) :
              LET homes == {a \in MappingsAt(fixtures, i) :
                               IsSome(fixtures[a[1]].mappings[a[2]].home)}
              IN homes # {} =>
                    \E a \in homes :
                        channels_state[i] = Unwrap(fixtures[a[1]].mappings[a[2]].home)

\* C18: after apply_home_values at startup the buffer has 512 entries, an index
\* with a home value holds it (also when the mapping has a default as well),
\* and an index whose mappings define a default and no home value holds that
\* default.
C18_HomeAndDefaultsAtStartup ==
    /\ C18_HomePass
    /\ AtStartup =>
          \A i \in MappedIndices(fixtures) :
              LET here == MappingsAt(fixtures, i)
                  defaults == {a \in here : IsSome(fixtures[a[1]].mappings[a[2]].default)}
              IN (/\ defaults # {}
                  /\ \A a \in here : fixtures[a[1]].mappings[a[2]].home = None)
                 => \E a \in defaults :
                        channels_state[i] = Unwrap(fixtures[a[1]].mappings[a[2]].default)

----------------------------------------------------------------------------
\* the macro channels (fixture index, macro index, position) that resolve to
\* the absolute channel index i
MacroChannelsAt(fx, i) ==
    UNION {UNION {{<<k, j, pos>> : pos \in {x \in DOMAIN fx[k].macros[j].channels :
                      fx[k].macros[j].channels[x] + fx[k].offset_channels - 1 = i}} :
                  j \in DOMAIN fx[k].macros} :
           k \in DOMAIN fx}

\* the members of a set of tuples that belong to the latest fixture
OfLatestFixture(writers) == {a \in writers : \A b \in writers : b[1] <= a[1]}

\* C19: when mappings of two fixtures resolve to the same absolute index, the
\* home pass and the resolve leave there the value of the fixture that is later
\* in the stored order, and a pass repeated over the unchanged model gives the
\* same buffer again.
C19_LaterFixtureWins ==
    /\ AtStartup =>
          /\ \A i \in MappedIndices(fixtures) :
                LET homes == {a \in MappingsAt(fixtures, i) :
                                 IsSome(fixtures[a[1]].mappings[a[2]].home)}
                IN \A a \in OfLatestFixture(homes) :
                      channels_state[i] = Unwrap(fixtures[a[1]].mappings[a[2]].home)
          /\ HomeFixtures(channels_state, fixtures, 1) = channels_state
    /\ last.op = "tick" =>
          /\ \A i \in MappedIndices(last.pre) :
                \A a \in OfLatestFixture(MacroChannelsAt(last.pre, i)) :
                    channels_state[i] = MacroByte(last.pre[a[1]].macros[a[2]], a[3])
          /\ ResolveFixtures(channels_state, last.pre, 1) = channels_state

C19_Witness ==
    /\ last.op = "tick"
    /\ Cardinality({a[1] : a \in MacroChannelsAt(last.pre, 1)}) = 2
    /\ last.pre[1].macros[1].current_value = 128
    /\ last.pre[2].macros[1].current_value = 200
    /\ channels_state[1] = 200

----------------------------------------------------------------------------
\* C20: the buffer always has its 512 entries; no step that handles a message
\* or applies a scene changes it; it changes only in the step that ends the
\* resolve of a tick, and then to the complete result of the resolve.
C20_BufferChangesOnlyInResolve ==
    /\ [](DOMAIN channels_state = 0 .. CHANNELS_PER_UNIVERSE - 1)
    /\ [][channels_state' # channels_state =>
             (/\ pc = "resolve"
              /\ pc' = "idle"
              /\ channels_state' = ResolveFixtures(channels_state, fixtures, 1))]_vars
    /\ [][applied' # applied => channels_state' = channels_state]_vars

C20_Witness ==
    /\ last.op = "tick"
    /\ pc = "idle"
    /\ Len(applied) = 2
    /\ channels_state # ApplyHomeValues(InitFixtures)
    /\ channels_state[0] = 128

----------------------------------------------------------------------------
\* C21: whenever a Control macro holds an animation, apply_macros is true, so
\* the tick never skips animate_macros for a pending animation.
C21_AnimationImpliesApplyMacros ==
    (\E a \in ControlMacros(fixtures) : IsSome(fixtures[a[1]].macros[a[2]].animation))
        => apply_macros

C21_Witness ==
    /\ last.op = "scene"
    /\ IsSome(last.arg.animation_ms)
    /\ sent_count = 0
    /\ \A a \in ControlMacros(last.pre) : last.pre[a[1]].macros[a[2]].animation = None
    /\ IsSome(fixtures[1].macros[1].animation)
    /\ apply_macros

----------------------------------------------------------------------------
\* the flag is false while nothing was sent or applied, and true in every state
\* after a message was handled or a scene applied
FlagFollowsHistory ==
    /\ (sent_count = 0 /\ go_count = 0) => ~apply_macros
    /\ last.op # "none" => apply_macros

\* C22: apply_macros starts false and is true in every state after a message
\* was received or a scene applied; while it is false, ticks leave
\* channels_state at the values apply_home_values wrote.
C22_FlagMonotoneHomeKept ==
    /\ FlagFollowsHistory
    /\ ~apply_macros => channels_state = ApplyHomeValues(fixtures)

\* C22 as amended: the same, with the buffer kept at the home values while the
\* flag is false only when neither auto_random nor auto_zero is set; no step
\* resets the flag.
C22_NormalModeHomeKept ==
    /\ []FlagFollowsHistory
    /\ [][apply_macros => apply_macros']_vars
    /\ []((settings = NormalMode /\ ~apply_macros)
            => channels_state = ApplyHomeValues(fixtures))

C22_Witness ==
    /\ settings = NormalMode
    /\ pc = "resolve"
    /\ ~apply_macros
    /\ sent_count = 1
    /\ tether_rx # <<>>
    /\ channels_state = ApplyHomeValues(fixtures)
    /\ channels_state[0] = 255

----------------------------------------------------------------------------
\* the value a scene stores for a macro that holds its current value
SceneValueOf(m) ==
    IF m.kind = "Control"
    THEN ControlValue(m.current_value)
    ELSE ColourValue(m.current_value)

\* the scene state holds, for every macro of every fixture, its value in fx
HoldsValuesOf(state, fx) ==
    \A i \in DOMAIN fx :
        /\ fx[i].label \in DOMAIN state
        /\ \A j \in DOMAIN fx[i].macros :
              LET m == fx[i].macros[j]
              IN /\ m.label \in DOMAIN state[fx[i].label]
                 /\ state[fx[i].label][m.label] = SceneValueOf(m)

\* C23: the scene "+ Add New" creates holds the current value of every macro
\* of every fixture, and a recall with no animation of a scene that holds the
\* values the fixtures have leaves the fixtures as they are.
C23_SnapshotRecallKeepsValues ==
    /\ last.op = "add_scene" =>
          /\ Len(scenes) = last.arg + 1
          /\ HoldsValuesOf(scenes[last.arg + 1].state, fixtures)
    /\ (/\ last.op = "scene"
        /\ last.arg.animation_ms = None
        /\ HoldsValuesOf(LastSceneState, last.pre)) => fixtures = last.pre

C23_Witness ==
    /\ last.op = "scene"
    /\ last.arg.animation_ms = None
    /\ last.arg.fixture_filters = None
    /\ go_count = 1
    /\ scenes[last.arg.scene_index + 1].label = "New Scene 0"
    /\ HoldsValuesOf(LastSceneState, last.pre)
    /\ last.pre[1].macros[1].current_value = 128
    /\ fixtures = last.pre

----------------------------------------------------------------------------
\* C24: the labels of the stored scenes are pairwise distinct, so the search
\* of handle_scene_message by a scene's own label finds that scene.
C24_SceneLabelsDistinct ==
    /\ \A i, j \in DOMAIN scenes : i # j => scenes[i].label # scenes[j].label
    /\ \A i \in DOMAIN scenes : FindScene(scenes, scenes[i].label) = i - 1

----------------------------------------------------------------------------
\* C25: the fixtures after apply_scene are the same for every order in which
\* the keys of the scene's state map can be iterated.
C25_KeyOrderIrrelevant ==
    last.op = "scene" =>
        \A order \in KeyOrders(LastSceneState) :
            ApplyScene(last.pre, scenes, last.arg.scene_index,
                       last.arg.animation_ms, last.arg.fixture_filters, order)
                = fixtures

====
